---- MODULE Spec2Model ----
(***************************************************************************)
(* Space-Debris-Demo: the orbit camera (src/src/camera.rs), the debris     *)
(* field and simulation clock (src/src/debris.rs), the TLE loader          *)
(* (src/src/loader.rs) and the Update schedule (src/src/main.rs).          *)
(*                                                                         *)
(* Numbers are fixed point.  Angles are in microradians, pointer deltas in *)
(* pixels, radius in 1/1000 world units, zoom factors in 1/1000, scroll in *)
(* wheel lines, times in seconds, propagated positions in metres           *)
(* (1/1000 km).  World positions are exact reduced fractions.  The trig    *)
(* functions of update_transform are kept as terms over their arguments.   *)
(***************************************************************************)
EXTENDS Integers, Sequences, FiniteSets, TLC

VARIABLES
    orbit,          \* OrbitCamera component: yaw, pitch, radius, target
    transform,      \* the camera entity's Transform
    mouse_buttons,  \* ButtonInput<MouseButton>: TRUE iff Left is pressed
    mouse_motion,   \* AccumulatedMouseMotion.delta of the current frame
    scroll,         \* AccumulatedMouseScroll.delta.y of the current frame
    pending,        \* systems of the Update schedule not yet run this frame
    ran,            \* systems already run this frame, in order
    recomputes,     \* executions of update_transform in the current frame
    frame_start,    \* OrbitCamera and Transform as the frame began
    frames,         \* frames begun so far
    file,           \* the orbital-element source: whether it opens, its lines
    strict,         \* whether twoline2rv panics on a malformed line
    phase,          \* "startup", "running" or "aborted" (a panic)
    sats,           \* DebrisField.sats
    entities,       \* the debris entities: Debris.sat_index and Transform
    sim_time,       \* SimulationTime: base_jd, base_fr, time_scale
    elapsed,        \* Time::elapsed(), seconds since app start
    jd,             \* integer Julian day of the last clock sample
    fr,             \* day fraction of the last clock sample, in seconds
    ticks,          \* frames of update_debris_positions so far
    sgp4_outcome,   \* what sgp4 returns for each body at the frame's date
    sgp4_log,       \* the sgp4 calls made in the last frame, in order
    ever_failed     \* sat indices whose sgp4 call has failed in some frame

camVars == <<orbit, transform, mouse_buttons, mouse_motion, scroll,
             pending, ran, recomputes, frame_start, frames>>

debrisVars == <<file, strict, phase, sats, entities, sim_time, elapsed, jd, fr,
                ticks, sgp4_outcome, sgp4_log, ever_failed>>

vars == <<camVars, debrisVars>>

\* camera frames explored
MaxFrames == 3

\* lines of the orbital-element source
MaxLines == 4

\* frames of update_debris_positions explored
MaxTicks == 3

\* pointer deltas (pixels) and wheel deltas (lines) the frame driver may report
MouseDeltas == { <<0, 0>>, <<100, 0>>, <<-100, 200>>, <<0, -200>>,
                 <<40, 1000>>, <<0, -1000>> }
ScrollDeltas == { -40, -1, 0, 1, 10 }

----------------------------------------------------------------------------
(* camera.rs *)

\* std::f32::consts::FRAC_PI_2, in microradians
FRAC_PI_2 == 1570796

\* the 0.01 rad margin of CameraSettings::default, in microradians
PITCH_MARGIN == 10000

pitch_limit == FRAC_PI_2 - PITCH_MARGIN

\* impl Default for CameraSettings
CameraSettings ==
    [ radius_range |-> [start |-> 1500, end |-> 50000],
      pitch_range  |-> [start |-> -pitch_limit, end |-> pitch_limit],
      rotate_speed |-> 5000,    \* 0.005 rad per pixel
      zoom_speed   |-> 150 ]    \* 0.15 per wheel line, in 1/1000

\* Vec3::ZERO
Vec3Zero == <<0, 0, 0>>

\* impl Default for OrbitCamera
OrbitCameraDefault ==
    [yaw |-> 0, pitch |-> 0, radius |-> 4000, target |-> Vec3Zero]

\* f32::clamp(self, min, max)
Clamp(x, lo, hi) == IF x < lo THEN lo ELSE IF x > hi THEN hi ELSE x

\* f32::max
Max(a, b) == IF a >= b THEN a ELSE b

\* sin_cos of an angle, as terms
Sin(a) == [f |-> "sin", of |-> a]
Cos(a) == [f |-> "cos", of |-> a]

\* Direction from target to camera: (cos_yaw*cos_pitch, sin_pitch, sin_yaw*cos_pitch)
Dir(o) ==
    << <<Cos(o.yaw), Cos(o.pitch)>>,
       <<Sin(o.pitch)>>,
       <<Sin(o.yaw), Cos(o.pitch)>> >>

\* OrbitCamera::update_transform: translation = target + dir * radius, then
\* look_at(target, Vec3::Y)
update_transform(o) ==
    [ translation |-> [i \in 1..3 |->
                         [base |-> o.target[i], dir |-> Dir(o)[i], times |-> o.radius]],
      looking_at  |-> o.target ]

Abs(x) == IF x < 0 THEN -x ELSE x

\* The camera entity as the two camera systems see it through
\* Single<(&mut Transform, &mut OrbitCamera), With<Camera>>
Camera(o, t, n) == [orbit |-> o, transform |-> t, recomputes |-> n]

\* orbit_camera without the clamp of the pitch
orbit_camera_NoClamp(cam, settings, pressed, delta) ==
    IF ~pressed
    THEN cam
    ELSE LET yaw1   == cam.orbit.yaw + delta[1] * settings.rotate_speed
             pitch1 == cam.orbit.pitch - delta[2] * settings.rotate_speed
             o      == [cam.orbit EXCEPT !.yaw = yaw1, !.pitch = pitch1]
         IN  Camera(o, update_transform(o), cam.recomputes + 1)

\* orbit_camera without the early return on a released button
orbit_camera_IgnoresButton(cam, settings, pressed, delta) ==
    LET yaw1   == cam.orbit.yaw + delta[1] * settings.rotate_speed
        pitch1 == cam.orbit.pitch - delta[2] * settings.rotate_speed
        pitch2 == Clamp(pitch1, settings.pitch_range.start,
                                settings.pitch_range.end)
        o      == [cam.orbit EXCEPT !.yaw = yaw1, !.pitch = pitch2]
    IN  Camera(o, update_transform(o), cam.recomputes + 1)

\* Left-mouse drag to orbit
orbit_camera(cam, settings, pressed, delta) ==
    IF ~pressed
    THEN cam
    ELSE LET yaw1   == cam.orbit.yaw + delta[1] * settings.rotate_speed
             pitch1 == cam.orbit.pitch - delta[2] * settings.rotate_speed
             pitch2 == Clamp(pitch1, settings.pitch_range.start,
                                     settings.pitch_range.end)
             o      == [cam.orbit EXCEPT !.yaw = yaw1, !.pitch = pitch2]
         IN  Camera(o, update_transform(o), cam.recomputes + 1)

\* zoom_camera without the clamp of the radius
zoom_camera_NoClamp(cam, settings, scroll_y) ==
    IF Abs(scroll_y) = 0
    THEN cam
    ELSE LET zoom_factor == Max(1000 - scroll_y * settings.zoom_speed, 100)
             radius1     == (cam.orbit.radius * zoom_factor) \div 1000
             o           == [cam.orbit EXCEPT !.radius = radius1]
         IN  Camera(o, update_transform(o), cam.recomputes + 1)

\* zoom_camera without the early return on a zero scroll
zoom_camera_AlwaysRecomputes(cam, settings, scroll_y) ==
    LET zoom_factor == Max(1000 - scroll_y * settings.zoom_speed, 100)
        radius1     == Clamp((cam.orbit.radius * zoom_factor) \div 1000,
                             settings.radius_range.start,
                             settings.radius_range.end)
        o           == [cam.orbit EXCEPT !.radius = radius1]
    IN  Camera(o, update_transform(o), cam.recomputes + 1)

\* zoom_camera without its call of update_transform
zoom_camera_StaleTransform(cam, settings, scroll_y) ==
    IF Abs(scroll_y) = 0
    THEN cam
    ELSE LET zoom_factor == Max(1000 - scroll_y * settings.zoom_speed, 100)
             radius1     == Clamp((cam.orbit.radius * zoom_factor) \div 1000,
                                  settings.radius_range.start,
                                  settings.radius_range.end)
             o           == [cam.orbit EXCEPT !.radius = radius1]
         IN  Camera(o, cam.transform, cam.recomputes)

\* Scroll wheel zoom in/out
zoom_camera(cam, settings, scroll_y) ==
    IF Abs(scroll_y) = 0
    THEN cam
    ELSE LET zoom_factor == Max(1000 - scroll_y * settings.zoom_speed, 100)
             radius1     == Clamp((cam.orbit.radius * zoom_factor) \div 1000,
                                  settings.radius_range.start,
                                  settings.radius_range.end)
             o           == [cam.orbit EXCEPT !.radius = radius1]
         IN  Camera(o, update_transform(o), cam.recomputes + 1)

\* setup_camera: spawn the camera with the default orbit and its transform
SetupCamera ==
    /\ orbit = OrbitCameraDefault
    /\ transform = update_transform(OrbitCameraDefault)


----------------------------------------------------------------------------
(* loader.rs *)

\* A line of the source is its position in the file and what it holds: the
\* first or second line of a two-line element set, anything else, or a read
\* error of BufRead::lines.
LineKinds == {"line1", "line2", "junk", "ioerr"}

LinesOf(kinds) == [i \in 1..Len(kinds) |-> [no |-> i, kind |-> kinds[i]]]

Files ==
    {[exists |-> FALSE, lines |-> <<>>]} \cup
    {[exists |-> TRUE, lines |-> LinesOf(k)] :
        k \in UNION {[1..n -> LineKinds] : n \in 0..MaxLines}}

\* SatRec::twoline2rv(line1, line2, "wgs84"): the propagation state of the two
\* lines it was given
twoline2rv(l1, l2) == [line1 |-> l1, line2 |-> l2, whichconst |-> "wgs84"]

WellFormed(l1, l2) == l1.kind = "line1" /\ l2.kind = "line2"

Panic(msg) == [ok |-> FALSE, sat_recs |-> <<>>, panic |-> msg]

\* the body of `for line in reader.lines()`, from line i on
RECURSIVE ReadLines(_, _, _, _, _)
ReadLines(lines, i, line_vec, sat_recs, panics) ==
    IF i > Len(lines)
    THEN [ok |-> TRUE, sat_recs |-> sat_recs, panic |-> ""]
    ELSE IF lines[i].kind = "ioerr"
    THEN Panic("Could not read line")
    ELSE LET pushed == Append(line_vec, lines[i])
         IN  IF Len(pushed) = 2
             THEN LET tle_line_1 == pushed[1]
                      tle_line_2 == pushed[2]
                  IN  IF panics /\ ~WellFormed(tle_line_1, tle_line_2)
                      THEN Panic("twoline2rv")
                      ELSE ReadLines(lines, i + 1, <<>>,
                                     Append(sat_recs,
                                            twoline2rv(tle_line_1, tle_line_2)),
                                     panics)
             ELSE ReadLines(lines, i + 1, pushed, sat_recs, panics)

load_tles_to_sat_rec(f, panics) ==
    IF ~f.exists
    THEN Panic("Cannot open TLE file")
    ELSE ReadLines(f.lines, 1, <<>>, <<>>, panics)

----------------------------------------------------------------------------
(* debris.rs *)

\* EARTH_RADIUS_KM = 6378.137, in metres
EARTH_RADIUS_KM == 6378137

\* the 86_400.0 seconds of a day
SECS_PER_DAY == 86400

RECURSIVE GCD(_, _)
GCD(a, b) == IF b = 0 THEN a ELSE GCD(b, a % b)

\* the fraction n / d in lowest terms, d > 0
Ratio(n, d) ==
    LET g == GCD(Abs(n), d) IN [num |-> n \div g, den |-> d \div g]

\* x * KM_TO_WORLD, KM_TO_WORLD = 1 / EARTH_RADIUS_KM
KM_TO_WORLD(x) == Ratio(x, EARTH_RADIUS_KM)

\* Transform::default().translation
TranslationDefault == <<Ratio(0, 1), Ratio(0, 1), Ratio(0, 1)>>

\* the position without the exchange of the second and third axis
WorldPosition_NoSwap(r_km) ==
    <<KM_TO_WORLD(r_km[1]), KM_TO_WORLD(r_km[2]), KM_TO_WORLD(r_km[3])>>

\* let pos = Vec3::new(r_km[0], r_km[2], r_km[1]) * KM_TO_WORLD
WorldPosition(r_km) ==
    LET x == r_km[1]
        y == r_km[3]
        z == r_km[2]
    IN  <<KM_TO_WORLD(x), KM_TO_WORLD(y), KM_TO_WORLD(z)>>

\* truncation toward zero in place of floor
FloorDays_Trunc(t) ==
    IF t >= 0 THEN t \div SECS_PER_DAY ELSE -((-t) \div SECS_PER_DAY)

\* f64::floor of a date given in seconds, in whole days
FloorDays(t) == t \div SECS_PER_DAY

\* the clock of update_debris_positions: (jd, fr) at elapsed_secs
ClockSample(st, elapsed_secs) ==
    LET delta_days == elapsed_secs * st.time_scale
        jd_full    == (st.base_jd * SECS_PER_DAY + st.base_fr) + delta_days
        day        == FloorDays(jd_full)
    IN  [jd |-> day, fr |-> jd_full - day * SECS_PER_DAY]

\* propagator outputs r_km (metres) and the failure of one sgp4 call
KmSamples == { <<6378137, 0, 0>>, <<1000000, 2000000, -7000000>> }
Outcomes == {[ok |-> TRUE, r_km |-> r] : r \in KmSamples} \cup
            {[ok |-> FALSE, r_km |-> <<0, 0, 0>>]}

\* the iteration with a circuit breaker: a body that failed before is skipped
LoopBody_CircuitBreaker(st, e, date, outcome) ==
    LET idx == st.entities[e].sat_index
    IN  IF idx < Len(st.sats) /\ idx \notin ever_failed
        THEN LET res    == outcome[idx]
                 called == Append(st.log, [sat |-> idx, jd |-> date.jd,
                                           fr |-> date.fr])
             IN  IF ~res.ok
                 THEN [st EXCEPT !.log = called]
                 ELSE [st EXCEPT !.log = called,
                                 !.entities[e].translation =
                                     WorldPosition(res.r_km)]
        ELSE st

\* One iteration of `for (debris, mut transform) in &mut query`, for entity e.
\* st holds the field, the entities and the sgp4 calls made so far.
LoopBody(st, e, date, outcome) ==
    LET idx == st.entities[e].sat_index
    IN  IF idx < Len(st.sats)
        THEN LET res    == outcome[idx]
                 called == Append(st.log, [sat |-> idx, jd |-> date.jd,
                                           fr |-> date.fr])
             IN  IF ~res.ok
                 THEN [st EXCEPT !.log = called]
                 ELSE [st EXCEPT !.log = called,
                                 !.entities[e].translation =
                                     WorldPosition(res.r_km)]
        ELSE st

\* the loop with `return` in place of `continue` on a propagation error
RECURSIVE QueryLoop_ReturnOnError(_, _, _, _, _)
QueryLoop_ReturnOnError(st, order, k, date, outcome) ==
    IF k > Len(order)
    THEN st
    ELSE LET idx == st.entities[order[k]].sat_index
         IN  IF idx < Len(st.sats) /\ ~outcome[idx].ok
             THEN LoopBody(st, order[k], date, outcome)
             ELSE QueryLoop_ReturnOnError(
                      LoopBody(st, order[k], date, outcome), order, k + 1,
                      date, outcome)

RECURSIVE QueryLoop(_, _, _, _, _)
QueryLoop(st, order, k, date, outcome) ==
    IF k > Len(order)
    THEN st
    ELSE QueryLoop(LoopBody(st, order[k], date, outcome), order, k + 1,
                   date, outcome)

update_debris_positions(field, ents, order, st, elapsed_secs, outcome) ==
    QueryLoop([sats |-> field, entities |-> ents, log |-> <<>>], order, 1,
              ClockSample(st, elapsed_secs), outcome)

\* setup_debris_field: the entities spawned for a loaded field
SpawnDebris(n) ==
    [i \in 1..n |-> [sat_index |-> i - 1, translation |-> TranslationDefault]]

\* orders in which a query may visit n entities
QueryOrders(n) ==
    {o \in [1..n -> 1..n] : \A i, j \in 1..n : o[i] = o[j] => i = j}

\* steps of Time::elapsed() between two frames, seconds
TimeSteps == {0, 30000, 86400}

\* Julian dates (day, seconds) and time scales the clock is sampled with
BaseDates == { <<2460, 43200>>, <<2460, 86399>> }
ClockBaseDates == { <<0, 0>>, <<1, 43200>>, <<2, 86399>> }
TimeScales == {-3, -1, 0, 1, 2}

----------------------------------------------------------------------------
(* main.rs: the Update schedule, (orbit_camera, zoom_camera) unordered *)

CameraSystems == {"orbit_camera", "zoom_camera"}

CurrentCamera == Camera(orbit, transform, recomputes)

\* the camera after setup_camera, before the first frame
InitCamera ==
    /\ SetupCamera
    /\ mouse_buttons = FALSE
    /\ mouse_motion = <<0, 0>>
    /\ scroll = 0
    /\ pending = {}
    /\ ran = <<>>
    /\ recomputes = 0
    /\ frame_start = [orbit |-> orbit, transform |-> transform]
    /\ frames = 0

\* The frame driver starts a frame: it publishes the aggregated input of the
\* frame and schedules the camera systems.
BeginFrame ==
    /\ pending = {}
    /\ frames < MaxFrames
    /\ frames' = frames + 1
    /\ mouse_buttons' \in BOOLEAN
    /\ mouse_motion' \in MouseDeltas
    /\ scroll' \in ScrollDeltas
    /\ pending' = CameraSystems
    /\ ran' = <<>>
    /\ recomputes' = 0
    /\ frame_start' = [orbit |-> orbit, transform |-> transform]
    /\ UNCHANGED <<orbit, transform>>
    /\ UNCHANGED debrisVars

SetCamera(cam, sys) ==
    /\ orbit' = cam.orbit
    /\ transform' = cam.transform
    /\ recomputes' = cam.recomputes
    /\ pending' = pending \ {sys}
    /\ ran' = Append(ran, sys)
    /\ UNCHANGED <<mouse_buttons, mouse_motion, scroll, frame_start, frames>>
    /\ UNCHANGED debrisVars

RunOrbitCamera ==
    /\ "orbit_camera" \in pending
    /\ SetCamera(orbit_camera(CurrentCamera, CameraSettings, mouse_buttons,
                              mouse_motion), "orbit_camera")

RunZoomCamera ==
    /\ "zoom_camera" \in pending
    /\ SetCamera(zoom_camera(CurrentCamera, CameraSettings, scroll),
                 "zoom_camera")

----------------------------------------------------------------------------
(* main.rs: Startup (setup_debris_field, setup_simulation_time) and the
   update_debris_positions system of the Update schedule *)

\* setup_debris_field: load the field and spawn an entity per satellite
setup_debris_field(f, panics) ==
    LET loaded == load_tles_to_sat_rec(f, panics)
        field  == [i \in 1..Len(loaded.sat_recs) |->
                      [satrec |-> loaded.sat_recs[i]]]
    IN  IF loaded.ok
        THEN [phase |-> "running", sats |-> field,
              entities |-> SpawnDebris(Len(field))]
        ELSE [phase |-> "aborted", sats |-> <<>>, entities |-> <<>>]

\* setup_simulation_time: the Julian date of Utc::now(), split, at 1x real time
setup_simulation_time(now) ==
    [base_jd |-> now[1], base_fr |-> now[2], time_scale |-> 1]

NoOutcome(n) == [i \in 0..(n - 1) |-> [ok |-> FALSE, r_km |-> <<0, 0, 0>>]]

\* the clock and the call records before the first frame
ClockAtStart(st) ==
    /\ sim_time = st
    /\ elapsed = 0
    /\ jd = ClockSample(st, 0).jd
    /\ fr = ClockSample(st, 0).fr
    /\ ticks = 0
    /\ sgp4_log = <<>>
    /\ ever_failed = {}

\* before Startup: the source and the library's behaviour are given
InitLoader ==
    /\ InitCamera
    /\ file \in Files
    /\ strict \in BOOLEAN
    /\ phase = "startup"
    /\ sats = <<>>
    /\ entities = <<>>
    /\ sgp4_outcome = <<>>
    /\ \E now \in BaseDates : ClockAtStart(setup_simulation_time(now))

SetupDebrisField ==
    /\ phase = "startup"
    /\ LET made == setup_debris_field(file, strict)
       IN  /\ phase' = made.phase
           /\ sats' = made.sats
           /\ entities' = made.entities
           /\ sgp4_outcome' = NoOutcome(Len(made.sats))
    /\ UNCHANGED <<file, strict, sim_time, elapsed, jd, fr, ticks, sgp4_log,
                   ever_failed>>
    /\ UNCHANGED camVars

\* a source of n complete two-line records
TleFile(n) ==
    [exists |-> TRUE,
     lines  |-> LinesOf([i \in 1..(2 * n) |->
                            IF i % 2 = 1 THEN "line1" ELSE "line2"])]

\* after Startup, with the field of a source of n complete records (a source
\* of at most MaxLines lines) and clock st
Started(n, st) ==
    /\ InitCamera
    /\ file = TleFile(n)
    /\ strict = TRUE
    /\ LET made == setup_debris_field(TleFile(n), TRUE)
       IN  /\ phase = made.phase
           /\ sats = made.sats
           /\ entities = made.entities
           /\ sgp4_outcome = NoOutcome(Len(made.sats))
    /\ ClockAtStart(st)

InitDebris ==
    \E n \in 0..(MaxLines \div 2), now \in BaseDates :
        Started(n, setup_simulation_time(now))

\* the clock for any time scale, over an empty field
InitClock ==
    \E now \in ClockBaseDates, scale \in TimeScales :
        Started(0, [setup_simulation_time(now) EXCEPT !.time_scale = scale])

\* One frame: Time advances, then update_debris_positions runs.
UpdateDebrisPositions ==
    /\ phase = "running"
    /\ ticks < MaxTicks
    /\ \E dt \in TimeSteps,
          outcome \in [0..(Len(sats) - 1) -> Outcomes],
          order \in QueryOrders(Len(entities)) :
          LET done == update_debris_positions(sats, entities, order, sim_time,
                                              elapsed + dt, outcome)
              date == ClockSample(sim_time, elapsed + dt)
          IN  /\ elapsed' = elapsed + dt
              /\ jd' = date.jd
              /\ fr' = date.fr
              /\ sats' = done.sats
              /\ entities' = done.entities
              /\ sgp4_log' = done.log
              /\ sgp4_outcome' = outcome
              /\ ever_failed' = ever_failed \cup
                     {done.log[k].sat : k \in {k \in 1..Len(done.log) :
                                                 ~outcome[done.log[k].sat].ok}}
    /\ ticks' = ticks + 1
    /\ UNCHANGED <<file, strict, phase, sim_time>>
    /\ UNCHANGED camVars

----------------------------------------------------------------------------
(* specifications *)

\* the program after Startup (setup_camera included) over an empty source
InitCameraFrames == Started(0, setup_simulation_time(<<2460, 43200>>))

NextCamera == BeginFrame \/ RunOrbitCamera \/ RunZoomCamera

\* the camera: setup_camera, then frames of the two camera systems
SpecCamera == InitCameraFrames /\ [][NextCamera]_vars

\* Startup over every source
SpecLoader == InitLoader /\ [][SetupDebrisField]_vars

\* the debris field after Startup, frame by frame
SpecDebris == InitDebris /\ [][UpdateDebrisPositions]_vars

\* the simulation clock under every time scale
SpecClock == InitClock /\ [][UpdateDebrisPositions]_vars

----------------------------------------------------------------------------
(* properties of the camera, under SpecCamera *)

Settings == CameraSettings

\* a step of the Update schedule that runs system sys
Ran(sys) == sys \in pending /\ sys \notin pending'

Triggered(sys) ==
    IF sys = "orbit_camera" THEN mouse_buttons ELSE Abs(scroll) # 0

EndOfFrame == pending = {}

\* C2 as stated: after any sequence of rotate, zoom and no-op frames the pitch
\* is strictly inside the configured pitch range and is never +pi/2 or -pi/2.
C2_PitchStrictlyInsideRange ==
    /\ Settings.pitch_range.start < orbit.pitch
    /\ orbit.pitch < Settings.pitch_range.end
    /\ orbit.pitch # FRAC_PI_2
    /\ orbit.pitch # -FRAC_PI_2

\* C2 amended: the pitch is inside the closed configured pitch range (it may
\* equal either end of it), hence strictly between -pi/2 and +pi/2.
C2_PitchWithinClosedRange ==
    /\ Settings.pitch_range.start <= orbit.pitch
    /\ orbit.pitch <= Settings.pitch_range.end
    /\ -FRAC_PI_2 < orbit.pitch
    /\ orbit.pitch < FRAC_PI_2

\* a drag past the pole has run and left the pitch on the upper end of the range
C2_Witness ==
    /\ "orbit_camera" \in {ran[k] : k \in 1..Len(ran)}
    /\ mouse_buttons
    /\ mouse_motion[2] = -1000
    /\ orbit.pitch = Settings.pitch_range.end

\* C3: the radius always lies in [radius_min, radius_max], and a zoom_camera
\* run with zero scroll leaves the orbit state and the transform unchanged.
C3_RadiusInRangeZeroScrollNoOp ==
    /\ [](/\ Settings.radius_range.start <= orbit.radius
          /\ orbit.radius <= Settings.radius_range.end)
    /\ [][(Ran("zoom_camera") /\ scroll = 0) =>
             (orbit' = orbit /\ transform' = transform)]_vars

\* a large wheel-down has run and left the radius on radius_max
C3_Witness ==
    /\ "zoom_camera" \in {ran[k] : k \in 1..Len(ran)}
    /\ scroll = -40
    /\ frame_start.orbit.radius < Settings.radius_range.end
    /\ orbit.radius = Settings.radius_range.end

\* C5: with the button up orbit_camera changes nothing, whatever the delta;
\* with the button down yaw grows by exactly delta.x * rotate_speed; and over
\* a whole frame yaw moves by the held delta of that frame alone.
C5_RotateOnlyWhileHeld ==
    /\ [][Ran("orbit_camera") =>
            /\ ~mouse_buttons => (orbit' = orbit /\ transform' = transform)
            /\ mouse_buttons =>
                 orbit'.yaw = orbit.yaw + mouse_motion[1] * Settings.rotate_speed
         ]_vars
    /\ [](EndOfFrame =>
            /\ orbit.yaw = frame_start.orbit.yaw +
                 (IF mouse_buttons
                  THEN mouse_motion[1] * Settings.rotate_speed ELSE 0)
            /\ ~mouse_buttons => orbit.pitch = frame_start.orbit.pitch)

\* a frame with the button up and a nonzero delta, then a held drag of
\* (100, 0): yaw is exactly 0.5 rad
C5_Witness ==
    /\ EndOfFrame
    /\ frames = 2
    /\ frame_start.orbit = OrbitCameraDefault
    /\ mouse_buttons
    /\ mouse_motion = <<100, 0>>
    /\ orbit.yaw = 500000

\* C6 as stated: update_transform runs at most once per frame, and when both
\* rotate and zoom are triggered both systems have run before it does.
C6_RecomputedAtMostOnce ==
    /\ recomputes <= 1
    /\ (Triggered("orbit_camera") /\ Triggered("zoom_camera") /\ recomputes > 0)
          => pending = {}

\* C6 amended: update_transform runs once in each camera system whose trigger
\* is present (twice in a frame that triggers both, never in a frame that
\* triggers neither), and after the last run of the frame the transform is
\* the one derived from the orbit state with every triggered mutation applied.
C6_RecomputedOncePerTriggeredSystem ==
    /\ recomputes =
          Cardinality({k \in 1..Len(ran) : Triggered(ran[k])})
    /\ recomputes <= 2
    /\ (EndOfFrame /\ recomputes > 0) => transform = update_transform(orbit)

\* a frame that triggered rotate and zoom has ended with two recomputations
C6_Witness ==
    /\ EndOfFrame
    /\ mouse_buttons
    /\ scroll # 0
    /\ recomputes = 2

\* the end-of-frame camera when orbit_camera runs before zoom_camera
OrbitThenZoom(cam) ==
    zoom_camera(orbit_camera(cam, Settings, mouse_buttons, mouse_motion),
                Settings, scroll)

\* the end-of-frame camera when zoom_camera runs before orbit_camera
ZoomThenOrbit(cam) ==
    orbit_camera(zoom_camera(cam, Settings, scroll),
                 Settings, mouse_buttons, mouse_motion)

\* C10: both orders of the two camera systems give the same end-of-frame
\* orbit state; rotate changes only yaw and pitch, zoom only radius, target
\* never changes; and at the end of every frame (and after setup_camera) the
\* translation is target + (cos yaw cos pitch, sin pitch, sin yaw cos pitch)
\* * radius for the current yaw, pitch and radius.
C10_OrderIndependentAndNeverStale ==
    LET start == Camera(frame_start.orbit, frame_start.transform, 0)
    IN  /\ pending = CameraSystems =>
              OrbitThenZoom(start).orbit = ZoomThenOrbit(start).orbit
        /\ EndOfFrame =>
              /\ orbit = OrbitThenZoom(start).orbit
              /\ orbit = ZoomThenOrbit(start).orbit
        /\ ran = <<"orbit_camera">> => orbit.radius = frame_start.orbit.radius
        /\ ran = <<"zoom_camera">> =>
              /\ orbit.yaw = frame_start.orbit.yaw
              /\ orbit.pitch = frame_start.orbit.pitch
        /\ orbit.target = Vec3Zero
        /\ EndOfFrame =>
              /\ transform.translation[1] =
                    [base |-> orbit.target[1],
                     dir |-> <<Cos(orbit.yaw), Cos(orbit.pitch)>>,
                     times |-> orbit.radius]
              /\ transform.translation[2] =
                    [base |-> orbit.target[2],
                     dir |-> <<Sin(orbit.pitch)>>,
                     times |-> orbit.radius]
              /\ transform.translation[3] =
                    [base |-> orbit.target[3],
                     dir |-> <<Sin(orbit.yaw), Cos(orbit.pitch)>>,
                     times |-> orbit.radius]

\* a frame in which zoom ran before rotate, both triggered, has ended
C10_Witness ==
    /\ EndOfFrame
    /\ ran = <<"zoom_camera", "orbit_camera">>
    /\ mouse_buttons
    /\ mouse_motion = <<-100, 200>>
    /\ scroll = 1
    /\ orbit.radius # frame_start.orbit.radius
    /\ orbit.pitch # frame_start.orbit.pitch

----------------------------------------------------------------------------
(* properties of the debris field, under SpecDebris *)

\* a step that is one frame of update_debris_positions
FrameStep == ticks' = ticks + 1

\* the entity that carries sat index idx
EntityOf(ents, idx) == CHOOSE e \in 1..Len(ents) : ents[e].sat_index = idx

\* C1: in every frame each body whose sgp4 call fails keeps its position, each
\* body whose call succeeds gets the newly propagated position, whatever the
\* other bodies' calls return and whatever the iteration order, and the frame
\* ends with the program running.
C1_FailureIsPerBody ==
    [][FrameStep =>
         /\ phase' = "running"
         /\ Len(entities') = Len(entities)
         /\ \A e \in 1..Len(entities) :
              LET idx == entities[e].sat_index
                  res == sgp4_outcome'[idx]
              IN  /\ entities'[e].sat_index = idx
                  /\ ~res.ok =>
                        entities'[e].translation = entities[e].translation
                  /\ res.ok =>
                        entities'[e].translation = WorldPosition(res.r_km)
      ]_vars

\* in a later frame one body failed and kept a position propagated earlier,
\* while the other body was updated
C1_Witness ==
    /\ ticks >= 2
    /\ Len(entities) = 2
    /\ \E a, b \in 1..Len(entities) :
          /\ ~sgp4_outcome[entities[a].sat_index].ok
          /\ entities[a].translation # TranslationDefault
          /\ sgp4_outcome[entities[b].sat_index].ok
          /\ entities[b].translation # entities[a].translation
          /\ sgp4_log[1].sat = entities[a].sat_index

\* C7: in every frame sgp4 is called exactly once for every body, with that
\* frame's clock sample, also for a body that failed in an earlier frame; no
\* body leaves the field; and a body that failed before and succeeds now gets
\* the newly propagated position.
C7_FailedBodyIsTriedAgain ==
    [][FrameStep =>
         /\ Len(sats') = Len(sats)
         /\ Len(entities') = Len(entities)
         /\ \A idx \in 0..(Len(sats) - 1) :
              /\ Cardinality({k \in 1..Len(sgp4_log') :
                                 sgp4_log'[k].sat = idx}) = 1
              /\ \A k \in 1..Len(sgp4_log') :
                    (sgp4_log'[k].jd = jd' /\ sgp4_log'[k].fr = fr')
              /\ (idx \in ever_failed /\ sgp4_outcome'[idx].ok) =>
                    entities'[EntityOf(entities', idx)].translation =
                        WorldPosition(sgp4_outcome'[idx].r_km)
      ]_vars

\* a body that failed in an earlier frame was propagated again and moved
C7_Witness ==
    /\ ticks >= 2
    /\ \E idx \in ever_failed :
          /\ sgp4_outcome[idx].ok
          /\ \E k \in 1..Len(sgp4_log) : sgp4_log[k].sat = idx
          /\ entities[EntityOf(entities, idx)].translation =
                WorldPosition(sgp4_outcome[idx].r_km)

\* C8: a successful propagator output (a, b, c) is written as the world
\* position (a, c, b) / EARTH_RADIUS_KM; (6378.137, 0, 0) km becomes (1, 0, 0).
C8_AxisPermutationAndScale ==
    \A e \in 1..Len(entities) :
        LET res == sgp4_outcome[entities[e].sat_index]
            pos == entities[e].translation
        IN  (ticks > 0 /\ res.ok) =>
               /\ pos[1] = Ratio(res.r_km[1], EARTH_RADIUS_KM)
               /\ pos[2] = Ratio(res.r_km[3], EARTH_RADIUS_KM)
               /\ pos[3] = Ratio(res.r_km[2], EARTH_RADIUS_KM)
               /\ res.r_km = <<6378137, 0, 0>> =>
                     pos = << [num |-> 1, den |-> 1], [num |-> 0, den |-> 1],
                              [num |-> 0, den |-> 1] >>

\* a body was propagated to (1000, 2000, -7000) km and to (6378.137, 0, 0) km
C8_Witness ==
    /\ ticks > 0
    /\ \E e, g \in 1..Len(entities) :
          /\ sgp4_outcome[entities[e].sat_index] =
                [ok |-> TRUE, r_km |-> <<1000000, 2000000, -7000000>>]
          /\ entities[e].translation[2].num < 0
          /\ sgp4_outcome[entities[g].sat_index] =
                [ok |-> TRUE, r_km |-> <<6378137, 0, 0>>]

----------------------------------------------------------------------------
(* properties of the simulation clock, under SpecClock *)

\* C4: the day fraction of every clock sample is in [0, 1), for every time
\* scale; and with a positive time scale the date (day, fraction) never
\* decreases as the elapsed time grows.
C4_FractionInRangeAndMonotonic ==
    /\ [](0 <= fr /\ fr < SECS_PER_DAY)
    /\ [][(sim_time.time_scale > 0 /\ elapsed <= elapsed') =>
             (jd < jd' \/ (jd = jd' /\ fr <= fr'))]_vars

\* a reversed clock was sampled at a date before day 0, inside a day
C4_Witness ==
    /\ ticks > 0
    /\ sim_time.time_scale < 0
    /\ jd < 0
    /\ fr > 0

----------------------------------------------------------------------------
(* properties of Startup, under SpecLoader *)

\* C9: Startup either aborts or yields exactly one propagation state per
\* two-line record, in file order, with every line of the source consumed:
\* body k built from lines 2k and 2k+1, bodies = lines / 2.
C9_NoPartialField ==
    phase # "startup" =>
        \/ phase = "aborted"
        \/ /\ 2 * Len(sats) = Len(file.lines)
           /\ \A k \in 1..Len(sats) :
                 /\ sats[k].satrec.line1 = file.lines[2 * k - 1]
                 /\ sats[k].satrec.line2 = file.lines[2 * k]
====
